---- MODULE Spec2Model ----
(***************************************************************************)
(* Shape inference of the Squeeze and Broadcast operators, broadcast axis  *)
(* derivation and evaluation dispatch, and the CPU layout assignment pass. *)
(*                                                                         *)
(* A behaviour follows one unit under analysis: a Squeeze node, a          *)
(* Broadcast node, or a call graph handed to the layout pass.  Init draws  *)
(* the unit and its inputs; the actions are the operations of the source.  *)
(* Axis indices are 0-based as in the source; sequences are 1-based, so    *)
(* the element of a shape at axis i is dims[i + 1].                        *)
(***************************************************************************)
EXTENDS Integers, Sequences, FiniteSets, TLC

(***************************************************************************)
(* Bounds of the model.                                                    *)
(***************************************************************************)
\* Largest rank of a data / argument / target shape.
MaxRank == 2
\* Largest number of entries of a literal axes list of a Squeeze node.
MaxAxes == 2
\* Largest number of nodes in a call graph, and of outputs per node.
MaxNodes == 2
MaxOutputs == 2
\* Largest number of runs of the layout pass over one call graph.
MaxRuns == 2

\* Dimension values.  The code only compares a dimension with 1 and with
\* another dimension, and takes the larger of two: 0, 1 and 2 give every
\* outcome of those comparisons (0 and 2 are the incompatible pair).
DimValues == {0, 1, 2}
\* Dimension::dynamic()
Dyn == -1
Dimensions == DimValues \cup {Dyn}

ElementTypes == {"f32", "i64"}

SeqsUpTo(S, n) == UNION {[1..k -> S] : k \in 0..n}

(***************************************************************************)
(* PartialShape: a sequence of dimensions, or a dynamic rank.              *)
(***************************************************************************)
PartialShapeDynamic == [rank_is_static |-> FALSE, dims |-> <<>>]
PartialShapeOf(dims) == [rank_is_static |-> TRUE, dims |-> dims]
RankIsDynamic(ps) == ~ps.rank_is_static
IsStatic(ps) == ps.rank_is_static /\ \A i \in DOMAIN ps.dims : ps.dims[i] # Dyn
IsDynamic(ps) == ~IsStatic(ps)

StaticShapes == {PartialShapeOf(d) : d \in SeqsUpTo(DimValues, MaxRank)}
PartialShapes ==
    {PartialShapeDynamic} \cup {PartialShapeOf(d) : d \in SeqsUpTo(Dimensions, MaxRank)}

Max(a, b) == IF a >= b THEN a ELSE b

(***************************************************************************)
(* State.                                                                  *)
(***************************************************************************)
VARIABLES
    unit,          \* "squeeze", "broadcast" or "layout": the unit under analysis
    sq_data,       \* Squeeze input 0: its partial shape
    sq_et,         \* Squeeze input 0: its element type
    sq_axes,       \* Squeeze input 1: [is_constant, value]
    sq_out,        \* Squeeze output 0 after inference: [status, et, shape]
    sq_get_axes,   \* result of the last get_axes() call: [status, val]
    sq_decomposed, \* result of the last decompose_op() call: [status, nodes]
    bc_mode,       \* Broadcast m_mode: [type, axis]
    bc_arg,        \* Broadcast input 0: its partial shape
    bc_target,     \* Broadcast input 1, the target shape
    bc_mapping,    \* Broadcast input 2, the axes mapping
    bc_out,        \* Broadcast output 0 after inference: [status, shape, ub]
    bc_axes,       \* result of the last get_broadcast_axes() call
    bc_eval,       \* result of the last evaluate() call
    bc_adjoint,    \* result of the last generate_adjoints() call
    nodes,         \* the call graph: the output count of each node, in order
    tv_layout,     \* the layout descriptor of each output tensor view
    tv_before,     \* tv_layout as it was when the last run of the pass began
    tv_first,      \* tv_layout as it was when the first run of the pass ended
    runs,          \* number of runs of the pass so far
    last_return    \* what the last run of the pass returned

sq_vars == <<sq_data, sq_et, sq_axes, sq_out, sq_get_axes, sq_decomposed>>
bc_vars ==
    <<bc_mode, bc_arg, bc_target, bc_mapping, bc_out, bc_axes, bc_eval, bc_adjoint>>
lay_vars == <<nodes, tv_layout, tv_before, tv_first, runs, last_return>>
vars == <<unit, sq_vars, bc_vars, lay_vars>>

(***************************************************************************)
(* The variables of the units a behaviour does not follow stay at rest.    *)
(***************************************************************************)
SqueezeIdle ==
    /\ sq_data = [rank_is_static |-> FALSE, dims |-> <<>>]
    /\ sq_et = "f32"
    /\ sq_axes = [is_constant |-> FALSE, value |-> <<>>]
    /\ sq_out = [status |-> "none", et |-> "f32",
                 shape |-> [rank_is_static |-> FALSE, dims |-> <<>>]]
    /\ sq_get_axes = [status |-> "none", val |-> <<>>]
    /\ sq_decomposed = [status |-> "none", nodes |-> <<>>]

BroadcastIdle ==
    /\ bc_mode = [type |-> "NUMPY", axis |-> 0]
    /\ bc_arg = [rank_is_static |-> FALSE, dims |-> <<>>]
    /\ bc_target = [kind |-> "other", integral |-> TRUE,
                    pshape |-> [rank_is_static |-> FALSE, dims |-> <<>>],
                    value |-> <<>>, parts |-> <<>>]
    /\ bc_mapping = [is_constant |-> FALSE, integral |-> TRUE,
                     pshape |-> [rank_is_static |-> FALSE, dims |-> <<>>],
                     value |-> <<>>]
    /\ bc_out = [status |-> "none",
                 shape |-> [rank_is_static |-> FALSE, dims |-> <<>>], ub |-> FALSE]
    /\ bc_axes = [status |-> "none", known |-> FALSE, axes |-> {}, ub |-> FALSE]
    /\ bc_eval = [status |-> "none", rc |-> FALSE, et |-> "f32"]
    /\ bc_adjoint = [status |-> "none", axes |-> {},
                     shape |-> [rank_is_static |-> FALSE, dims |-> <<>>]]

LayoutIdle ==
    /\ nodes = <<>>
    /\ tv_layout = <<>>
    /\ tv_before = <<>>
    /\ tv_first = <<>>
    /\ runs = 0
    /\ last_return = FALSE

(***************************************************************************)
(* Squeeze.                                                                *)
(***************************************************************************)
NoOutput == [status |-> "none", et |-> "f32", shape |-> PartialShapeDynamic]
Output(et, shape) == [status |-> "ok", et |-> et, shape |-> shape]
Failure(kind) == [status |-> kind, et |-> "f32", shape |-> PartialShapeDynamic]

NoAxes == [status |-> "none", val |-> <<>>]

\* normalize_axes: every axis must lie in [-rank, rank - 1]; a negative axis
\* counts from the end.  The order and the repetitions of the list are kept.
normalize_axes(axes, rank) ==
    IF \E i \in DOMAIN axes : axes[i] < -rank \/ axes[i] > rank - 1
    THEN [status |-> "error", val |-> <<>>]
    ELSE [status |-> "ok",
          val |-> [i \in DOMAIN axes |-> IF axes[i] < 0 THEN axes[i] + rank ELSE axes[i]]]

\* The loop of get_axes for an empty literal list (lines 106-112): every
\* index, from idx on, whose dimension is 1.
RECURSIVE unit_axes(_, _)
unit_axes_nonunit(data_shape, idx) ==
    SelectSeq([i \in 1..Len(data_shape) |-> i - 1], LAMBDA a : data_shape[a + 1] # 1)

unit_axes(data_shape, idx) ==
    IF idx >= Len(data_shape) THEN <<>>
    ELSE (IF data_shape[idx + 1] = 1 THEN <<idx>> ELSE <<>>) \o unit_axes(data_shape, idx + 1)

\* Squeeze::get_axes.  input_value(0).get_shape() is defined only for a
\* static shape and fails otherwise.
get_axes(data, axes) ==
    IF RankIsDynamic(data) \/ ~axes.is_constant
    THEN [status |-> "error", val |-> <<>>]
    ELSE IF axes.value = <<>>
    THEN (IF IsDynamic(data)
          THEN [status |-> "error", val |-> <<>>]
          ELSE [status |-> "ok", val |-> unit_axes(data.dims, 0)])
    ELSE normalize_axes(axes.value, Len(data.dims))

\* set<size_t, greater<size_t>> unique_axes(begin(axes), end(axes))
unique_axes(axes) == {axes[i] : i \in DOMAIN axes}

\* The check of lines 64-75 over every unique axis: made only when the whole
\* data shape is static.
axes_valid(data, unique) ==
    IsDynamic(data) \/ \A axis \in unique : data.dims[axis + 1] = 1

\* vector<uint64_t> axes_to_squeeze(data_rank), set to 1 at every unique axis.
axes_to_squeeze(data_rank, unique) ==
    [i \in 1..data_rank |-> IF (i - 1) \in unique THEN 1 ELSE 0]

\* The loop of lines 77-84: the dimensions, from idx on, not marked.
RECURSIVE output_data_shape(_, _, _)
output_data_shape_all(dims, to_squeeze, idx) ==
    dims

output_data_shape(dims, to_squeeze, idx) ==
    IF idx >= Len(dims) THEN <<>>
    ELSE (IF to_squeeze[idx + 1] = 0 THEN <<dims[idx + 1]>> ELSE <<>>)
         \o output_data_shape(dims, to_squeeze, idx + 1)

\* The early return of lines 48-53: the output is PartialShape::dynamic().
infers_dynamic_no_empty_case(data, axes) ==
    RankIsDynamic(data) \/ ~axes.is_constant

infers_dynamic(data, axes) ==
    \/ RankIsDynamic(data)
    \/ ~axes.is_constant
    \/ (IsDynamic(data) /\ axes.is_constant /\ axes.value = <<>>)

\* Squeeze::pre_validate_and_infer_types
pre_validate_and_infer_types(data, et, axes) ==
    IF infers_dynamic(data, axes)
    THEN Output(et, PartialShapeDynamic)
    ELSE LET got == get_axes(data, axes)
             unique == unique_axes(got.val)
         IN  IF got.status # "ok" THEN Failure("error")
             ELSE IF ~axes_valid(data, unique) THEN Failure("validation_error")
             ELSE Output(et, PartialShapeOf(
                      output_data_shape(data.dims,
                                        axes_to_squeeze(Len(data.dims), unique), 0)))

\* Results of decompose_op: the replacement nodes, or a failure.
NotDecomposed == [status |-> "none", nodes |-> <<>>]
DecomposeFailed(kind) == [status |-> kind, nodes |-> <<>>]
Decomposed(replacements) == [status |-> "ok", nodes |-> replacements]

\* get_default_order(rank): the axes 0 .. rank - 1 in order.
get_default_order(rank) == [i \in 1..rank |-> i - 1]

\* make_shared<op::Reshape>(data, input_order, output_shape)
Reshape(data, input_order, output_shape) ==
    [op |-> "Reshape", arg |-> data, input_order |-> input_order,
     output_shape |-> output_shape]

\* Output<Node>::get_shape(): defined only for a static shape.
get_shape_fails(pshape) == IsDynamic(pshape)

\* Squeeze::decompose_op: the check of lines 124-127, then the reads of the
\* data shape and the output shape, then the one Reshape.
decompose_op(data, out) ==
    IF ~IsStatic(out.shape) THEN DecomposeFailed("validation_error")
    ELSE IF get_shape_fails(data) THEN DecomposeFailed("error")
    ELSE Decomposed(<<Reshape(data, get_default_order(Len(data.dims)), out.shape.dims)>>)

\* Literal axes lists: in range, negative, and one step out of range.
AxesValues == (-MaxRank)..MaxRank
AxesInputs ==
    {[is_constant |-> FALSE, value |-> <<>>]}
    \cup {[is_constant |-> TRUE, value |-> v] : v \in SeqsUpTo(AxesValues, MaxAxes)}

InitSqueeze ==
    /\ unit = "squeeze"
    /\ sq_data \in PartialShapes
    /\ sq_et \in ElementTypes
    /\ sq_axes \in AxesInputs
    /\ sq_out = NoOutput
    /\ sq_get_axes = NoAxes
    /\ sq_decomposed = NotDecomposed
    /\ BroadcastIdle
    /\ LayoutIdle

\* The constructor's (or a later) inference of the Squeeze node.
SqueezeInfer ==
    /\ unit = "squeeze"
    /\ sq_out' = pre_validate_and_infer_types(sq_data, sq_et, sq_axes)
    /\ UNCHANGED <<unit, sq_data, sq_et, sq_axes, sq_get_axes, sq_decomposed, bc_vars,
                   lay_vars>>

\* A caller's get_axes() on the Squeeze node.
SqueezeGetAxes ==
    /\ unit = "squeeze"
    /\ sq_get_axes' = get_axes(sq_data, sq_axes)
    /\ UNCHANGED <<unit, sq_data, sq_et, sq_axes, sq_out, sq_decomposed, bc_vars, lay_vars>>

\* The expansion of the constructed Squeeze node by decompose_op().
SqueezeDecompose ==
    /\ unit = "squeeze"
    /\ sq_out.status = "ok"
    /\ sq_decomposed' = decompose_op(sq_data, sq_out)
    /\ UNCHANGED <<unit, sq_data, sq_et, sq_axes, sq_out, sq_get_axes, bc_vars, lay_vars>>

(***************************************************************************)
(* Broadcast.                                                              *)
(***************************************************************************)
\* size_t arithmetic wraps modulo 2^SizeBits.  The width stands for the
\* machine's 64 bits: every rank of the model is far below either modulus.
SizeBits == 30
SizeMod == 2 ^ SizeBits
ToSize(x) == x % SizeMod

\* The element types evaluate_broadcast dispatches on (lines 303-327).
SupportedTypes ==
    {"boolean", "i8", "i16", "i32", "i64", "u8", "u16", "u32", "u64",
     "bf16", "f16", "f32", "f64"}
\* Element types of the argument: one dispatched on, one that is not.
TensorElementTypes == {"f32", "u1"}

\* Input 1, the target shape: a Constant, a Concat of scalars, or another
\* node.  pshape is the partial shape of the input itself, value the
\* Constant's get_shape_val(), parts the Concat's inputs (a part that is
\* not a Constant is Dyn).
TargetConstant(v) ==
    [kind |-> "constant", integral |-> TRUE, pshape |-> PartialShapeOf(<<Len(v)>>),
     value |-> v, parts |-> <<>>]
TargetConcat(parts, pshape) ==
    [kind |-> "concat", integral |-> TRUE, pshape |-> pshape, value |-> <<>>,
     parts |-> parts]
TargetOther(pshape, integral) ==
    [kind |-> "other", integral |-> integral, pshape |-> pshape, value |-> <<>>,
     parts |-> <<>>]

\* Input 2, the axes mapping of EXPLICIT mode; NoMapping in the other modes.
MappingConstant(v) ==
    [is_constant |-> TRUE, integral |-> TRUE, pshape |-> PartialShapeOf(<<Len(v)>>),
     value |-> v]
MappingOther(pshape, integral) ==
    [is_constant |-> FALSE, integral |-> integral, pshape |-> pshape, value |-> <<>>]
NoMapping == MappingOther(PartialShapeDynamic, TRUE)

\* Rank::compatible(1)
RankCompatible1(ps) == RankIsDynamic(ps) \/ Len(ps.dims) = 1

\* Outcomes of inference: ub marks a run that read outside a vector.
BcOutput(shape, ub) == [status |-> "ok", shape |-> shape, ub |-> ub]
BcFailure(kind, ub) == [status |-> kind, shape |-> PartialShapeDynamic, ub |-> ub]
BcNoOutput == BcFailure("none", FALSE)

\* Lines 79-109: the target shape read from input 1.
result_shape(target) ==
    IF target.kind = "constant" THEN PartialShapeOf(target.value)
    ELSE IF /\ target.kind = "concat"
            /\ IsStatic(target.pshape)
            /\ Len(target.pshape.dims) = 1
            /\ Len(target.parts) = target.pshape.dims[1]
    THEN PartialShapeOf(target.parts)
    ELSE PartialShapeDynamic

\* std::is_sorted
is_sorted(v) == \A i \in 1..(Len(v) - 1) : v[i] <= v[i + 1]

\* The loop of lines 142-162, from index i (0-based) on.
RECURSIVE explicit_loop(_, _, _, _)
explicit_loop(arg_shape, target_shape, axes_mapping_val, i) ==
    IF i >= Len(axes_mapping_val) THEN "ok"
    ELSE IF ~(axes_mapping_val[i + 1] < Len(target_shape)) THEN "validation_error"
    ELSE IF target_shape[axes_mapping_val[i + 1] + 1] # arg_shape[i + 1]
    THEN "validation_error"
    ELSE explicit_loop(arg_shape, target_shape, axes_mapping_val, i + 1)

\* Lines 111-165: the checks of EXPLICIT (NONE) mode.
explicit_checks(arg, target, mapping) ==
    IF ~(IsStatic(arg) /\ IsStatic(target.pshape) /\ IsStatic(mapping.pshape))
    THEN "ok"
    ELSE IF mapping.pshape.dims[1] # Len(arg.dims) THEN "validation_error"
    ELSE IF ~(target.kind = "constant" /\ mapping.is_constant) THEN "ok"
    ELSE IF ~is_sorted(mapping.value) THEN "validation_error"
    ELSE explicit_loop(arg.dims, target.value, mapping.value, 0)

\* Lines 175-177: both operands of ?: are converted to size_t.
start_axis(mode, result_rank, arg_rank) ==
    IF mode.type = "PDPD" THEN ToSize(mode.axis) ELSE ToSize(result_rank - arg_rank)

\* A read of arg_shape[j]: the element, or, outside the vector, any value
\* (Crash: the read faults).
Crash == -2
arg_read(arg_shape, j) ==
    IF j < Len(arg_shape) THEN {arg_shape[j + 1]} ELSE DimValues \cup {Crash}

\* std::max of line 194
result_dim_min(a, t) == IF a <= t THEN a ELSE t

result_dim(a, t) == Max(a, t)

\* The loop of lines 184-195, from index i on; shape is result_shape so far.
RECURSIVE numpy_loop(_, _, _, _, _, _)
numpy_loop(arg_shape, target_shape, start, i, shape, ub) ==
    IF ~(i < Len(target_shape)) THEN {BcOutput(PartialShapeOf(shape), ub)}
    ELSE LET j == ToSize(i - start)
             oob == ub \/ ~(j < Len(arg_shape))
         IN  UNION {
               IF a = Crash THEN {BcFailure("crash", TRUE)}
               ELSE IF ~(a = 1 \/ target_shape[i + 1] = 1 \/ a = target_shape[i + 1])
               THEN {BcFailure("validation_error", oob)}
               ELSE numpy_loop(arg_shape, target_shape, start, i + 1,
                               [shape EXCEPT ![i + 1] = result_dim(a, target_shape[i + 1])],
                               oob)
               : a \in arg_read(arg_shape, j)}

\* Lines 166-198: the checks of NUMPY and PDPD mode.
numpy_checks(mode, arg, target) ==
    IF ~(IsStatic(arg) /\ IsStatic(target.pshape) /\ target.kind = "constant")
    THEN {BcOutput(result_shape(target), FALSE)}
    ELSE LET start == start_axis(mode, Len(target.value), Len(arg.dims))
         IN  IF ~(start >= 0) THEN {BcFailure("validation_error", FALSE)}
             ELSE numpy_loop(arg.dims, target.value, start, start, target.value, FALSE)

\* BroadcastBase::validate_and_infer_types: the set of its outcomes.
validate_and_infer_types(mode, arg, target, mapping) ==
    IF ~target.integral THEN {BcFailure("validation_error", FALSE)}
    ELSE IF ~RankCompatible1(target.pshape) THEN {BcFailure("validation_error", FALSE)}
    ELSE IF mode.type = "NONE" /\ ~mapping.integral
    THEN {BcFailure("validation_error", FALSE)}
    ELSE IF mode.type = "NONE" /\ ~RankCompatible1(mapping.pshape)
    THEN {BcFailure("validation_error", FALSE)}
    ELSE IF mode.type = "NONE"
    THEN (IF explicit_checks(arg, target, mapping) = "ok"
          THEN {BcOutput(result_shape(target), FALSE)}
          ELSE {BcFailure("validation_error", FALSE)})
    ELSE numpy_checks(mode, arg, target)

\* Outcomes of get_broadcast_axes: the pair (known, axes).
AxesOutcome(known, axes, ub) == [status |-> "ok", known |-> known, axes |-> axes, ub |-> ub]
AxesCrash == [status |-> "crash", known |-> FALSE, axes |-> {}, ub |-> TRUE]
BcNoAxes == [status |-> "none", known |-> FALSE, axes |-> {}, ub |-> FALSE]

\* vector::erase(begin() + pos), pos a 0-based index inside the vector.
erase(axes, pos) == [k \in 1..(Len(axes) - 1) |-> IF k <= pos THEN axes[k] ELSE axes[k + 1]]

\* The loop of lines 219-222 over axes_mapping_val from its element k
\* (1-based) down to its first: [ok, axes]; ok is FALSE once an erase is
\* given a position outside the vector.
RECURSIVE erase_loop(_, _, _)
erase_loop(axes, axes_mapping_val, k) ==
    IF k = 0 THEN [ok |-> TRUE, axes |-> axes]
    ELSE IF axes_mapping_val[k] < Len(axes)
    THEN erase_loop(erase(axes, axes_mapping_val[k]), axes_mapping_val, k - 1)
    ELSE [ok |-> FALSE, axes |-> axes]

\* Lines 207-226: EXPLICIT mode.  An erase outside the vector is undefined:
\* the call faults or returns any set of target axes.
explicit_axes(target, mapping) ==
    IF ~(IsStatic(target.pshape) /\ mapping.is_constant)
    THEN {AxesOutcome(FALSE, {}, FALSE)}
    ELSE LET rank == target.pshape.dims[1]
             erased == erase_loop([k \in 1..rank |-> k - 1], mapping.value,
                                  Len(mapping.value))
         IN  IF erased.ok
             THEN {AxesOutcome(TRUE, {erased.axes[k] : k \in DOMAIN erased.axes}, FALSE)}
             ELSE {AxesCrash} \cup {AxesOutcome(TRUE, a, TRUE) : a \in SUBSET (0..(rank - 1))}

\* The loop of lines 237-243, from index i on; axes is broadcast_axes so far.
RECURSIVE axes_loop(_, _, _, _, _, _)
axes_loop(arg_shape, out_shape, start, i, axes, ub) ==
    IF ~(i < Len(out_shape)) THEN {AxesOutcome(TRUE, axes, ub)}
    ELSE IF i < start
    THEN axes_loop(arg_shape, out_shape, start, i + 1, axes \cup {i}, ub)
    ELSE LET j == ToSize(i - start)
             oob == ub \/ ~(j < Len(arg_shape))
         IN  UNION {
               IF a = Crash THEN {AxesCrash}
               ELSE axes_loop(arg_shape, out_shape, start, i + 1,
                              IF out_shape[i + 1] # a THEN axes \cup {i} ELSE axes, oob)
               : a \in arg_read(arg_shape, j)}

\* Lines 227-246: NUMPY and PDPD mode.
numpy_axes(mode, arg, out) ==
    IF ~(IsStatic(arg) /\ IsStatic(out.shape))
    THEN {AxesOutcome(FALSE, {}, FALSE)}
    ELSE axes_loop(arg.dims, out.shape.dims,
                   start_axis(mode, Len(out.shape.dims), Len(arg.dims)), 0, {}, FALSE)

\* BroadcastBase::get_broadcast_axes: the set of its outcomes.
get_broadcast_axes(mode, arg, target, mapping, out) ==
    IF mode.type = "NONE" THEN explicit_axes(target, mapping)
    ELSE numpy_axes(mode, arg, out)

\* Outcomes of evaluate: a returned boolean, an exception, or a fault.
EvalReturned(rc, et) == [status |-> "returned", rc |-> rc, et |-> et]
EvalThrew(et) == [status |-> "threw", rc |-> FALSE, et |-> et]
EvalCrash(et) == [status |-> "crash", rc |-> FALSE, et |-> et]
BcNoEval == [status |-> "none", rc |-> FALSE, et |-> "f32"]

\* evaluate_broadcast (lines 288-332)
evaluate_broadcast(et, pair_broadcast_axes) ==
    IF ~pair_broadcast_axes.known THEN EvalReturned(FALSE, et)
    ELSE IF et \in SupportedTypes THEN EvalReturned(TRUE, et)
    ELSE EvalReturned(FALSE, et)

\* Node::get_output_shape(0): defined only for a static output shape.
get_output_shape_fails(out) == IsDynamic(out.shape)

\* BroadcastBase::evaluate (lines 335-339): both get_broadcast_axes() and
\* get_output_shape(0) are evaluated before evaluate_broadcast is entered.
evaluate(et, mode, arg, target, mapping, out) ==
    {IF p.status = "crash" THEN EvalCrash(et)
     ELSE IF get_output_shape_fails(out) THEN EvalThrew(et)
     ELSE evaluate_broadcast(et, p)
       : p \in get_broadcast_axes(mode, arg, target, mapping, out)}

\* Outcomes of generate_adjoints: the Sum node added as the argument's
\* delta (its reduction axes and its output shape), an exception, or a fault.
BcNoAdjoint == [status |-> "none", axes |-> {}, shape |-> PartialShapeDynamic]
AdjointThrew == [status |-> "threw", axes |-> {}, shape |-> PartialShapeDynamic]
AdjointCrash == [status |-> "crash", axes |-> {}, shape |-> PartialShapeDynamic]
AdjointAdded(axes, shape) == [status |-> "ok", axes |-> axes, shape |-> shape]

\* The output shape of op::Sum(delta, axes): the shape of delta without
\* the reduction axes.
sum_shape(delta_shape, axes) ==
    IF RankIsDynamic(delta_shape) THEN PartialShapeDynamic
    ELSE PartialShapeOf(
             LET kept == SelectSeq([i \in 1..Len(delta_shape.dims) |-> i - 1],
                                   LAMBDA axis : axis \notin axes)
             IN  [k \in 1..Len(kept) |-> delta_shape.dims[kept[k] + 1]])

\* BroadcastBase::generate_adjoints: the set of its outcomes.  delta has
\* the shape of output 0.
generate_adjoints_unguarded(mode, arg, target, mapping, out) ==
    {IF p.status = "crash" THEN AdjointCrash
     ELSE AdjointAdded(p.axes, sum_shape(out.shape, p.axes))
       : p \in get_broadcast_axes(mode, arg, target, mapping, out)}

generate_adjoints(mode, arg, target, mapping, out) ==
    {IF p.status = "crash" THEN AdjointCrash
     ELSE IF p.known THEN AdjointAdded(p.axes, sum_shape(out.shape, p.axes))
     ELSE AdjointThrew
       : p \in get_broadcast_axes(mode, arg, target, mapping, out)}

\* The modes and inputs a Broadcast node is built from.
NumpyModes ==
    {[type |-> "NUMPY", axis |-> 0]} \cup {[type |-> "PDPD", axis |-> a] : a \in (-1)..MaxRank}
ExplicitMode == [type |-> "NONE", axis |-> 0]

\* Inference asks of a dynamic argument shape only that it is dynamic.
ArgShapes(dims) ==
    {PartialShapeOf(d) : d \in SeqsUpTo(dims, MaxRank)}
    \cup {PartialShapeDynamic, PartialShapeOf(<<Dyn>>)}

\* Shapes of an input that is not a Constant: a vector of known or unknown
\* length, a matrix, or of dynamic rank.
InputShapes ==
    {PartialShapeOf(<<k>>) : k \in 0..MaxRank}
    \cup {PartialShapeOf(<<Dyn>>), PartialShapeOf(<<1, 1>>), PartialShapeDynamic}

\* Inference copies the literal parts of a Concat and reads no dimension of
\* them: one literal value and the unknown one stand for all.
TargetInputs(dims) ==
    {TargetConstant(v) : v \in SeqsUpTo(dims, MaxRank)}
    \cup {TargetConcat(parts, PartialShapeOf(<<Len(parts)>>))
            : parts \in SeqsUpTo({2, Dyn}, MaxRank)}
    \cup {TargetConcat(<<1>>, PartialShapeOf(<<2>>)),
          TargetConcat(<<1>>, PartialShapeOf(<<Dyn>>))}
    \cup {TargetOther(ps, TRUE) : ps \in InputShapes}
    \cup {TargetOther(PartialShapeOf(<<1>>), FALSE)}

\* Mapped axes: inside the largest target rank, and one step outside it.
MappingInputs ==
    {MappingConstant(v) : v \in SeqsUpTo(0..MaxRank, MaxRank)}
    \cup {MappingOther(ps, TRUE) : ps \in InputShapes}
    \cup {MappingOther(PartialShapeOf(<<1>>), FALSE)}

\* EXPLICIT mode compares dimensions for equality only.
ExplicitDims == {1, 2}

InitBroadcast ==
    /\ unit = "broadcast"
    /\ \/ /\ bc_mode \in NumpyModes
          /\ bc_arg \in ArgShapes(DimValues)
          /\ bc_target \in TargetInputs(DimValues)
          /\ bc_mapping = NoMapping
       \/ /\ bc_mode = ExplicitMode
          /\ bc_arg \in ArgShapes(ExplicitDims)
          /\ bc_target \in TargetInputs(ExplicitDims)
          /\ bc_mapping \in MappingInputs
    /\ bc_out = BcNoOutput
    /\ bc_axes = BcNoAxes
    /\ bc_eval = BcNoEval
    /\ bc_adjoint = BcNoAdjoint
    /\ SqueezeIdle
    /\ LayoutIdle

\* The constructor's inference of the Broadcast node.
BroadcastInfer ==
    /\ unit = "broadcast"
    /\ bc_out.status = "none"
    /\ bc_out' \in validate_and_infer_types(bc_mode, bc_arg, bc_target, bc_mapping)
    /\ UNCHANGED <<unit, sq_vars, bc_mode, bc_arg, bc_target, bc_mapping, bc_axes,
                   bc_eval, bc_adjoint, lay_vars>>

\* A caller's get_broadcast_axes() on the constructed node.  bc_axes keeps
\* the outcome of one call: a repeated call has the same set of outcomes.
GetBroadcastAxes ==
    /\ unit = "broadcast"
    /\ bc_out.status = "ok"
    /\ bc_axes.status = "none"
    /\ bc_axes' \in get_broadcast_axes(bc_mode, bc_arg, bc_target, bc_mapping, bc_out)
    /\ UNCHANGED <<unit, sq_vars, bc_mode, bc_arg, bc_target, bc_mapping, bc_out,
                   bc_eval, bc_adjoint, lay_vars>>

\* The evaluation driver's evaluate() on the constructed node, with an
\* argument tensor of element type et.
Evaluate ==
    /\ unit = "broadcast"
    /\ bc_out.status = "ok"
    /\ bc_eval.status = "none"
    /\ \E et \in TensorElementTypes :
         bc_eval' \in evaluate(et, bc_mode, bc_arg, bc_target, bc_mapping, bc_out)
    /\ UNCHANGED <<unit, sq_vars, bc_mode, bc_arg, bc_target, bc_mapping, bc_out,
                   bc_axes, bc_adjoint, lay_vars>>

\* Autodiff's generate_adjoints() on the constructed node.  bc_adjoint
\* keeps the outcome of one call.
GenerateAdjoints ==
    /\ unit = "broadcast"
    /\ bc_out.status = "ok"
    /\ bc_adjoint.status = "none"
    /\ bc_adjoint' \in generate_adjoints(bc_mode, bc_arg, bc_target, bc_mapping, bc_out)
    /\ UNCHANGED <<unit, sq_vars, bc_mode, bc_arg, bc_target, bc_mapping, bc_out,
                   bc_axes, bc_eval, lay_vars>>

(***************************************************************************)
(* The CPU layout pass.                                                    *)
(***************************************************************************)
\* The tensor views of a call graph: output i (0-based) of node n (1-based).
TensorViews(graph) ==
    {tv \in (1..Len(graph)) \X (0..(MaxOutputs - 1)) : tv[2] < graph[tv[1]]}

NoLayout == [kind |-> "none", tv |-> <<0, 0>>, run |-> 0]
\* A descriptor attached before the pass runs.
PresetLayout(tv) == [kind |-> "preset", tv |-> tv, run |-> 0]
\* make_shared<LayoutDescriptor>(*tv): a new descriptor, told apart from
\* those of other runs by the run that made it.
LayoutDescriptor(tv, run) == [kind |-> "cpu", tv |-> tv, run |-> run]

\* Lines 27-38: one output of one node.
assign_layout_always(layout, tv, run) ==
    [layout EXCEPT ![tv] = LayoutDescriptor(tv, run)]

assign_layout(layout, tv, run) ==
    IF layout[tv] # NoLayout THEN layout
    ELSE [layout EXCEPT ![tv] = LayoutDescriptor(tv, run)]

\* The loop of line 25 over the outputs of node n, from output i on.
RECURSIVE run_on_outputs(_, _, _, _, _)
run_on_outputs(layout, n, i, output_size, run) ==
    IF ~(i < output_size) THEN layout
    ELSE run_on_outputs(assign_layout(layout, <<n, i>>, run), n, i + 1, output_size, run)

\* The loop of line 23 over the nodes, from node n on.
RECURSIVE run_on_nodes(_, _, _, _)
run_on_nodes(layout, graph, n, run) ==
    IF n > Len(graph) THEN layout
    ELSE run_on_nodes(run_on_outputs(layout, n, 0, graph[n], run), graph, n + 1, run)

\* CPULayout::run_on_call_graph: the layouts it leaves and what it returns.
run_on_call_graph(graph, layout, run) ==
    [layout |-> run_on_nodes(layout, graph, 1, run), changed |-> FALSE]

InitLayout ==
    /\ unit = "layout"
    /\ nodes \in SeqsUpTo(0..MaxOutputs, MaxNodes)
    /\ \E preset \in SUBSET TensorViews(nodes) :
         tv_layout = [tv \in TensorViews(nodes) |->
                        IF tv \in preset THEN PresetLayout(tv) ELSE NoLayout]
    /\ tv_before = tv_layout
    /\ tv_first = tv_layout
    /\ runs = 0
    /\ last_return = FALSE
    /\ SqueezeIdle
    /\ BroadcastIdle

\* One run of the pass over the call graph.
RunLayoutPass ==
    /\ unit = "layout"
    /\ runs < MaxRuns
    /\ LET ran == run_on_call_graph(nodes, tv_layout, runs + 1)
       IN  /\ tv_layout' = ran.layout
           /\ last_return' = ran.changed
           /\ tv_first' = IF runs = 0 THEN ran.layout ELSE tv_first
    /\ tv_before' = tv_layout
    /\ runs' = runs + 1
    /\ UNCHANGED <<unit, sq_vars, bc_vars, nodes>>

Init == InitSqueeze \/ InitBroadcast \/ InitLayout
Next ==
    \/ SqueezeInfer
    \/ SqueezeGetAxes
    \/ SqueezeDecompose
    \/ BroadcastInfer
    \/ GetBroadcastAxes
    \/ Evaluate
    \/ GenerateAdjoints
    \/ RunLayoutPass
Spec == Init /\ [][Next]_vars

(***************************************************************************)
(* Properties.                                                             *)
(***************************************************************************)
SqueezeInferred == unit = "squeeze" /\ sq_out.status # "none"
LiteralAxes == sq_axes.is_constant /\ sq_axes.value # <<>>
AxesInRange ==
    \A i \in DOMAIN sq_axes.value :
        sq_axes.value[i] >= -Len(sq_data.dims) /\ sq_axes.value[i] < Len(sq_data.dims)
\* The axes the literal list names, counted from the front, without repeats.
NamedAxes ==
    {IF sq_axes.value[i] < 0 THEN sq_axes.value[i] + Len(sq_data.dims)
     ELSE sq_axes.value[i] : i \in DOMAIN sq_axes.value}
Positions(dims) == [i \in 1..Len(dims) |-> i - 1]
\* The dimensions of dims at the positions outside removed, in order.
KeptDims(dims, removed) ==
    LET kept == SelectSeq(Positions(dims), LAMBDA pos : pos \notin removed)
    IN  [k \in 1..Len(kept) |-> dims[kept[k] + 1]]

C1_Case ==
    /\ SqueezeInferred
    /\ IsStatic(sq_data)
    /\ LiteralAxes
    /\ AxesInRange
    /\ \A a \in NamedAxes : sq_data.dims[a + 1] = 1

\* C1: inference of a Squeeze on a static shape S with a literal non-empty
\* axes list naming the axes A, each of dimension 1, succeeds; the output has
\* data's element type and rank(S) - |A|, and its dimensions are those of S
\* outside A, in order.
C1_SqueezeRemovesNamedUnitAxes ==
    C1_Case =>
        /\ sq_out.status = "ok"
        /\ sq_out.et = sq_et
        /\ sq_out.shape.rank_is_static
        /\ Len(sq_out.shape.dims) = Len(sq_data.dims) - Cardinality(NamedAxes)
        /\ sq_out.shape.dims = KeptDims(sq_data.dims, NamedAxes)

\* A rank-2 shape squeezed to rank 1 by a negative axis.
C1_Witness ==
    /\ C1_Case
    /\ sq_out.status = "ok"
    /\ Len(sq_data.dims) = 2
    /\ Len(sq_out.shape.dims) = 1
    /\ sq_out.shape.dims[1] = 2
    /\ \E i \in DOMAIN sq_axes.value : sq_axes.value[i] < 0

\* C2: inference of a Squeeze on a shape of known rank with a literal
\* non-empty axes list fails validation whenever a named axis has a static
\* dimension other than 1, also when other dimensions are unknown.
C2_NonUnitAxisFailsValidation ==
    (/\ SqueezeInferred
     /\ sq_data.rank_is_static
     /\ LiteralAxes
     /\ AxesInRange
     /\ \E a \in NamedAxes : sq_data.dims[a + 1] \notin {1, Dyn})
        => sq_out.status = "validation_error"

UnitAxes(dims) == SelectSeq(Positions(dims), LAMBDA pos : dims[pos + 1] = 1)
NonUnitDims(dims) == SelectSeq(dims, LAMBDA d : d # 1)

C8_Case ==
    /\ unit = "squeeze"
    /\ IsStatic(sq_data)
    /\ sq_axes.is_constant
    /\ sq_axes.value = <<>>

\* C8: a Squeeze with an empty literal axes list on a static shape S infers
\* S without its dimensions equal to 1, the same output as a Squeeze on S
\* with the literal list { i : S[i] = 1 }, and get_axes() returns that list.
C8_EmptyAxesRemoveEveryUnitDimension ==
    C8_Case =>
        /\ sq_out.status # "none" =>
             /\ sq_out = Output(sq_et, PartialShapeOf(NonUnitDims(sq_data.dims)))
             /\ UnitAxes(sq_data.dims) # <<>> =>
                  sq_out = pre_validate_and_infer_types(
                               sq_data, sq_et,
                               [is_constant |-> TRUE, value |-> UnitAxes(sq_data.dims)])
        /\ sq_get_axes.status # "none" =>
             sq_get_axes = [status |-> "ok", val |-> UnitAxes(sq_data.dims)]

\* {1, 2} or {2, 1} with an empty list: inferred, and get_axes() called.
C8_Witness ==
    /\ C8_Case
    /\ sq_out.status = "ok"
    /\ sq_get_axes.status = "ok"
    /\ Len(sq_data.dims) = 2
    /\ sq_out.shape.dims = <<2>>
    /\ Len(sq_get_axes.val) = 1

PartiallyKnown(ps) == ps.rank_is_static /\ \E i \in DOMAIN ps.dims : ps.dims[i] = Dyn

\* C9: inference of a Squeeze yields an output of unknown rank, with data's
\* element type and no failure, exactly when data's rank is unknown, or the
\* axes are not a constant, or data's shape is partially known and the
\* literal axes list is empty; every other output has a known rank.
C9_DynamicOutputExactlyWhenUnresolvable ==
    SqueezeInferred =>
        /\ (sq_out.status = "ok" /\ RankIsDynamic(sq_out.shape))
             <=> \/ RankIsDynamic(sq_data)
                 \/ ~sq_axes.is_constant
                 \/ (PartiallyKnown(sq_data) /\ sq_axes.value = <<>>)
        /\ sq_out.status = "ok" => sq_out.et = sq_et

\* A partially known shape with an empty literal list, inferred.
C9_Witness ==
    /\ SqueezeInferred
    /\ PartiallyKnown(sq_data)
    /\ sq_axes.is_constant
    /\ sq_axes.value = <<>>
    /\ sq_out.status = "ok"
    /\ RankIsDynamic(sq_out.shape)
    /\ sq_et = "i64"

BroadcastInferred == unit = "broadcast" /\ bc_out.status # "none"

C3_Case ==
    /\ BroadcastInferred
    /\ bc_mode.type = "NUMPY"
    /\ IsStatic(bc_arg)
    /\ bc_target.kind = "constant"
    /\ Len(bc_target.value) >= Len(bc_arg.dims)
C3_Start == Len(bc_target.value) - Len(bc_arg.dims)
C3_Compatible(i) ==
    \/ bc_arg.dims[i - C3_Start + 1] = 1
    \/ bc_target.value[i + 1] = 1
    \/ bc_arg.dims[i - C3_Start + 1] = bc_target.value[i + 1]

\* C3: in NUMPY mode, with a static argument and a literal target of at
\* least the argument's rank, inference fails iff some aligned position is
\* incompatible; otherwise the output has the target's rank, the larger of
\* the two dimensions at every aligned position and the target's dimension
\* at every leading position.
C3_NumpyBroadcastShape ==
    C3_Case =>
        IF \E i \in C3_Start..(Len(bc_target.value) - 1) : ~C3_Compatible(i)
        THEN bc_out.status = "validation_error"
        ELSE /\ bc_out.status = "ok"
             /\ bc_out.shape.rank_is_static
             /\ Len(bc_out.shape.dims) = Len(bc_target.value)
             /\ \A i \in 0..(Len(bc_target.value) - 1) :
                  bc_out.shape.dims[i + 1] =
                      IF i >= C3_Start
                      THEN Max(bc_arg.dims[i - C3_Start + 1], bc_target.value[i + 1])
                      ELSE bc_target.value[i + 1]

\* An argument {2} against a target {d, 1}: one leading position, and an
\* aligned position where the argument's dimension is the larger.
C3_Witness ==
    /\ C3_Case
    /\ bc_out.status = "ok"
    /\ bc_arg.dims = <<2>>
    /\ Len(bc_target.value) = 2
    /\ bc_target.value[2] = 1
    /\ bc_out.shape.dims[2] = 2

\* The start axis as the mathematical integer the mode defines.
StartAxisValue ==
    IF bc_mode.type = "PDPD" THEN bc_mode.axis
    ELSE Len(bc_target.value) - Len(bc_arg.dims)

\* C4: in NUMPY or PDPD mode, with a static argument and a literal target,
\* inference fails validation whenever the start axis would be negative.
C4_NegativeStartAxisFailsValidation ==
    (/\ BroadcastInferred
     /\ bc_mode.type \in {"NUMPY", "PDPD"}
     /\ IsStatic(bc_arg)
     /\ bc_target.kind = "constant"
     /\ StartAxisValue < 0)
        => bc_out.status = "validation_error"

StrictlyIncreasing(v) == \A i \in 1..(Len(v) - 1) : v[i] < v[i + 1]

\* C5: in EXPLICIT mode, with a static argument and target and mapping both
\* literal, inference succeeds only if the mapping is strictly increasing.
C5_MappingStrictlyIncreasing ==
    (/\ BroadcastInferred
     /\ bc_mode.type = "NONE"
     /\ IsStatic(bc_arg)
     /\ bc_target.kind = "constant"
     /\ bc_mapping.is_constant
     /\ bc_out.status = "ok")
        => StrictlyIncreasing(bc_mapping.value)

\* C6: in EXPLICIT mode, with a literal mapping M and a static target rank
\* R, get_broadcast_axes returns known = true and exactly the axes of
\* 0..R-1 that are no value of M.  (Stated of the calls whose behaviour is
\* defined.)
C6_ExplicitAxesAreTheUnmappedAxes ==
    (/\ unit = "broadcast"
     /\ bc_mode.type = "NONE"
     /\ bc_mapping.is_constant
     /\ IsStatic(bc_target.pshape)
     /\ bc_axes.status # "none"
     /\ ~bc_axes.ub)
        => /\ bc_axes.status = "ok"
           /\ bc_axes.known
           /\ bc_axes.axes =
                {i \in 0..(bc_target.pshape.dims[1] - 1) :
                    \A k \in DOMAIN bc_mapping.value : bc_mapping.value[k] # i}

\* C7: evaluate returns false, and raises nothing, whenever the axis set is
\* not known, the inferred output shape is not static, or the element type
\* is not one it dispatches on.  (Stated of the calls whose behaviour is
\* defined.)
C7_EvaluateReturnsFalseOnDispatchFailure ==
    (/\ unit = "broadcast"
     /\ bc_eval.status \in {"returned", "threw"}
     /\ \/ IsDynamic(bc_out.shape)
        \/ bc_eval.et \notin SupportedTypes
        \/ \A p \in get_broadcast_axes(bc_mode, bc_arg, bc_target, bc_mapping, bc_out) :
               ~p.known)
        => bc_eval = EvalReturned(FALSE, bc_eval.et)

\* C10: every run of the layout pass returns false and keeps every
\* descriptor an output carried when the run began, and every run after the
\* first leaves the descriptors as the first run left them.
C10_LayoutPassIdempotent ==
    (unit = "layout" /\ runs >= 1) =>
        /\ last_return = FALSE
        /\ \A tv \in DOMAIN tv_before :
             tv_before[tv] # NoLayout => tv_layout[tv] = tv_before[tv]
        /\ tv_layout = tv_first

\* Two runs over a graph with one preset output and one the pass assigned.
C10_Witness ==
    /\ unit = "layout"
    /\ runs >= 2
    /\ \E tv \in DOMAIN tv_layout : tv_layout[tv].kind = "preset"
    /\ \E tv \in DOMAIN tv_layout : tv_layout[tv].kind = "cpu"

\* C11: decomposing a Squeeze node fails with a validation error and creates
\* no replacement node when its inferred output shape is not static, and
\* otherwise returns exactly one reshape over the original data with the
\* input order 0 .. rank(data) - 1 and the inferred output shape.
C11_DecomposeReturnsOneReshape ==
    (unit = "squeeze" /\ sq_decomposed.status # "none") =>
        IF IsStatic(sq_out.shape)
        THEN /\ sq_decomposed.status = "ok"
             /\ Len(sq_decomposed.nodes) = 1
             /\ sq_decomposed.nodes[1].op = "Reshape"
             /\ sq_decomposed.nodes[1].arg = sq_data
             /\ sq_decomposed.nodes[1].input_order = Positions(sq_data.dims)
             /\ sq_decomposed.nodes[1].output_shape = sq_out.shape.dims
        ELSE sq_decomposed = DecomposeFailed("validation_error")

\* The shapes get_broadcast_axes requires are not static.
RequiredShapesNotStatic ==
    IF bc_mode.type = "NONE"
    THEN ~bc_mapping.is_constant \/ ~IsStatic(bc_target.pshape)
    ELSE ~IsStatic(bc_arg) \/ ~IsStatic(bc_out.shape)

\* C12: in every mode, get_broadcast_axes on a node whose required shapes
\* are not static returns known = false with an empty axis set and does not
\* fail, and generate_adjoints throws exactly in those cases.
C12_UnknownAxesExactlyWhenNotStatic ==
    unit = "broadcast" =>
        /\ (bc_axes.status # "none" /\ RequiredShapesNotStatic)
               => bc_axes = AxesOutcome(FALSE, {}, FALSE)
        /\ bc_adjoint.status # "none"
               => (bc_adjoint.status = "threw" <=> RequiredShapesNotStatic)

\* A PDPD node with an argument of unknown shape: the axes are unknown and
\* the gradient throws.
C12_Witness ==
    /\ unit = "broadcast"
    /\ bc_mode.type = "PDPD"
    /\ IsDynamic(bc_arg)
    /\ bc_axes = AxesOutcome(FALSE, {}, FALSE)
    /\ bc_adjoint = AdjointThrew

\* C13: in NUMPY and PDPD mode every read of an argument dimension, in
\* inference and in get_broadcast_axes, is at an index inside the argument
\* shape.
C13_ArgumentReadsInsideShape ==
    (unit = "broadcast" /\ bc_mode.type \in {"NUMPY", "PDPD"}) =>
        /\ ~bc_out.ub
        /\ ~bc_axes.ub

\* C14: when inference passed with static argument and output shapes and
\* the axes are known, the output shape without the broadcast axes, which is
\* the shape of the Sum routed to the argument, is the argument's shape.
\* (Stated of NUMPY mode with a literal target of at least the argument's
\* rank, where every read is inside the argument shape.)
C14_GradientHasArgumentShape ==
    (/\ C3_Case
     /\ bc_out.status = "ok"
     /\ IsStatic(bc_out.shape)
     /\ bc_adjoint.status = "ok")
        => bc_adjoint.shape = bc_arg
====
